---- MODULE Spec2Model ----
(***************************************************************************)
(* Model of server.py: the balloon fetch and normalisation                 *)
(* (get_balloon_data), the 60 second flight cache (get_flight_data) run by *)
(* concurrent request threads, and the risk detector (detect_risks).       *)
(***************************************************************************)
EXTENDS Integers, Sequences, FiniteSets, TLC

VARIABLES
    \* ---- flight cache (module globals and the request threads) ----
    now,                    \* the value time.time() returns
    cached_flight_data,     \* global, server.py:38
    last_flight_fetch_time, \* global, server.py:39
    pc,                     \* per thread: position inside get_flight_data
    response,               \* per thread: the local `response`
    flights,                \* per thread: the local `flights`
    result,                 \* per thread: the value the call returned
    staleFail,              \* history: "failed" once a fetch has failed while the
                            \* cache was expired, "retried" once a later call
                            \* has gone to the upstream again, "no" from the
                            \* next stored timestamp on
    \* ---- normalisation of one upstream answer ----
    upstream,               \* the answer the upstream gives
    norm_pc,
    norm_out,
    \* ---- detect_risks(flights, balloons) ----
    d_flights,              \* argument `flights`
    d_balloons,             \* argument `balloons`
    d_pc,
    d_i,                    \* position of the `for flight in flights` loop
    alerts,                 \* local `alerts`
    emitted,                \* history: the (flight index, balloon index) of each alert
    treeBuilt,              \* history: KDTree(...) was constructed
    queries,                \* history: number of query_ball_point calls
    d_result                \* the value detect_risks returned

cacheVars == <<now, cached_flight_data, last_flight_fetch_time, pc, response,
               flights, result, staleFail>>
normVars == <<upstream, norm_pc, norm_out>>
detectVars == <<d_flights, d_balloons, d_pc, d_i, alerts, emitted, treeBuilt,
                queries, d_result>>
vars == <<cacheVars, normVars, detectVars>>

(***************************************************************************)
(* JSON / Python values.  Every value has the same shape: k is the kind,   *)
(* v the number (for "num", and the sign for "inf"), s the characters (for *)
(* "str").                                                                 *)
(***************************************************************************)
Num(n) == [k |-> "num", v |-> n, s |-> <<>>]
Str(chars) == [k |-> "str", v |-> 0, s |-> chars]
NaN == [k |-> "nan", v |-> 0, s |-> <<>>]
Inf == [k |-> "inf", v |-> 1, s |-> <<>>]
Null == [k |-> "null", v |-> 0, s |-> <<>>]

\* Python truth value: 0, None and "" are false; NaN and Infinity are true.
Truthy(x) ==
    CASE x.k = "num" -> x.v # 0
      [] x.k = "str" -> x.s # <<>>
      [] x.k = "null" -> FALSE
      [] OTHER -> TRUE

\* np.isnan / np.isinf: "T", "F", or "raise" (TypeError on None and str).
IsNan(x) ==
    CASE x.k = "nan" -> "T"
      [] x.k \in {"num", "inf"} -> "F"
      [] OTHER -> "raise"

IsInf(x) ==
    CASE x.k = "inf" -> "T"
      [] x.k \in {"num", "nan"} -> "F"
      [] OTHER -> "raise"

\* Python's short-circuit `a or b or ...` over already classified operands.
RECURSIVE OrChain(_)
OrChain(tests) ==
    IF tests = <<>> THEN "F"
    ELSE IF Head(tests) = "F" THEN OrChain(Tail(tests))
    ELSE Head(tests)

\* str.strip(): whitespace removed at both ends.
RECURSIVE LStrip(_)
LStrip(chars) ==
    IF chars # <<>> /\ Head(chars) = " " THEN LStrip(Tail(chars)) ELSE chars

RECURSIVE RStrip(_)
RStrip(chars) ==
    IF chars # <<>> /\ chars[Len(chars)] = " "
    THEN RStrip(SubSeq(chars, 1, Len(chars) - 1))
    ELSE chars

Strip(chars) == RStrip(LStrip(chars))

Unknown == <<"U", "n", "k", "n", "o", "w", "n">>

KmToM == 1000

Ok(val) == [raised |-> FALSE, val |-> val]
Raised == [raised |-> TRUE, val |-> <<>>]

(***************************************************************************)
(* get_balloon_data, lines 19-32: the loop over raw_data.                  *)
(***************************************************************************)
BalloonRejected(entry) ==
    OrChain(<<IsNan(entry[1]), IsNan(entry[2]), IsNan(entry[3]),
              IsInf(entry[1]), IsInf(entry[2]), IsInf(entry[3])>>)

BalloonEntity(entry) ==
    [latitude |-> entry[1], longitude |-> entry[2],
     altitude |-> Num(entry[3].v * KmToM)]

RECURSIVE BalloonLoop(_, _)
BalloonLoop(raw_data, balloons) ==
    IF raw_data = <<>> THEN Ok(balloons)
    ELSE LET entry == Head(raw_data) IN
         IF Len(entry) # 3 THEN BalloonLoop(Tail(raw_data), balloons)
         ELSE CASE BalloonRejected(entry) = "raise" -> Raised
                [] BalloonRejected(entry) = "T" ->
                       BalloonLoop(Tail(raw_data), balloons)
                [] OTHER ->
                       BalloonLoop(Tail(raw_data),
                                   Append(balloons, BalloonEntity(entry)))

(***************************************************************************)
(* get_flight_data, lines 53-63: the loop over response.json()["states"].  *)
(* A raw record is a sequence; Python index i is position i + 1.           *)
(***************************************************************************)
HasIndex(rec, i) == i + 1 \in DOMAIN rec
At(rec, i) == rec[i + 1]

\* `flight[5] and flight[6] and flight[7]`: "T", "F", or "raise" (IndexError).
RECURSIVE AndChainAt(_, _)
AndChainAt(rec, idxs) ==
    IF idxs = <<>> THEN "T"
    ELSE IF ~HasIndex(rec, Head(idxs)) THEN "raise"
    ELSE IF ~Truthy(At(rec, Head(idxs))) THEN "F"
    ELSE AndChainAt(rec, Tail(idxs))

FlightAccepted(flight) == AndChainAt(flight, <<5, 6, 7>>)

\* `flight[1].strip() if flight[1] else "Unknown"`; only str has .strip().
Callsign(flight) ==
    IF ~Truthy(At(flight, 1)) THEN Ok(Unknown)
    ELSE IF At(flight, 1).k = "str" THEN Ok(Strip(At(flight, 1).s))
    ELSE Raised

FlightEntity(flight) ==
    [callsign |-> Callsign(flight).val, latitude |-> At(flight, 6),
     longitude |-> At(flight, 5), altitude |-> At(flight, 7)]

RECURSIVE FlightLoop(_, _)
FlightLoop(flight_data, acc) ==
    IF flight_data = <<>> THEN Ok(acc)
    ELSE LET flight == Head(flight_data) IN
         CASE FlightAccepted(flight) = "raise" -> Raised
           [] FlightAccepted(flight) = "F" -> FlightLoop(Tail(flight_data), acc)
           [] OTHER ->
                  IF Callsign(flight).raised THEN Raised
                  ELSE FlightLoop(Tail(flight_data),
                                  Append(acc, FlightEntity(flight)))

\* response.json().get("states", []) followed by the loop.  The body is
\* [k |-> "missing" | "null" | "list", v |-> records]: no "states" key gives
\* the default [], "states": null gives None, which `for` cannot iterate.
ParseFlights(body) ==
    CASE body.k = "missing" -> Ok(<<>>)
      [] body.k = "null" -> Raised
      [] OTHER -> FlightLoop(body.v, <<>>)

(***************************************************************************)
(* The flight cache: get_flight_data run by the request threads of the     *)
(* server (app.run serves each request on its own thread; the function     *)
(* takes no lock).                                                         *)
(***************************************************************************)
Threads == {"t1", "t2"}

TTL == 60

\* Clock: time.time() is far above TTL when the process starts.  It advances
\* by one second or by one second less than the TTL, at most MaxTicks times,
\* so ages of TTL - 1, TTL and TTL + 1 all occur.
StartTime == 2 * TTL
TickSteps == {1, TTL - 1}
MaxTicks == 4
TicksUsed ==
    ((now - StartTime) \div (TTL - 1)) + ((now - StartTime) % (TTL - 1))

\* An OpenSky state vector, fields 0..7 (only 1, 5, 6 and 7 are read).
FlightRecord(callsign, lon, lat, alt) ==
    <<Null, callsign, Null, Null, Null, lon, lat, alt>>

StatesMissing == [k |-> "missing", v |-> <<>>]
StatesNull == [k |-> "null", v |-> <<>>]
StatesList(records) == [k |-> "list", v |-> records]

CacheBodies ==
    {StatesMissing, StatesNull,
     StatesList(<<FlightRecord(Str(<<"A", " ">>), Num(1), Num(1), Num(9000))>>),
     StatesList(<<FlightRecord(Str(<<"B">>), Num(1), Num(2), Num(10999))>>)}

NoResponse == [status |-> 0, body |-> StatesMissing]

\* What requests.get(url) can return: 200 with a body, or an error status.
Responses ==
    {[status |-> 200, body |-> b] : b \in CacheBodies}
        \cup {[status |-> 500, body |-> StatesMissing]}

\* line 45: `current_time - last_flight_fetch_time < 60`
CacheFreshSubSecond(current_time) == current_time - last_flight_fetch_time < 1

CacheFreshInclusive(current_time) == current_time - last_flight_fetch_time =< TTL

CacheFresh(current_time) == current_time - last_flight_fetch_time < TTL

\* The cache is expired at this instant (the negation of line 45's test).
Expired == now - last_flight_fetch_time >= TTL

\* The history after a fetch has failed.
AfterFailure(h) == IF Expired /\ h = "no" THEN "failed" ELSE h

\* The history after a call has gone on to requests.get.
AfterRefetch(h) == IF h = "no" THEN "no" ELSE "retried"

CacheInit ==
    /\ now = StartTime
    /\ cached_flight_data = <<>>
    /\ last_flight_fetch_time = 0
    /\ pc = [t \in Threads |-> "idle"]
    /\ response = [t \in Threads |-> NoResponse]
    /\ flights = [t \in Threads |-> <<>>]
    /\ result = [t \in Threads |-> <<>>]
    /\ staleFail = "no"

\* lines 42-50: read the clock, test the age of the cache; either return the
\* cached list or go on to requests.get, which blocks the thread.
Call(t) ==
    /\ pc[t] = "idle"
    /\ IF CacheFresh(now)
       THEN /\ pc' = [pc EXCEPT ![t] = "done"]
            /\ result' = [result EXCEPT ![t] = cached_flight_data]
            /\ UNCHANGED staleFail
       ELSE /\ pc' = [pc EXCEPT ![t] = "fetching"]
            /\ staleFail' = AfterRefetch(staleFail)
            /\ UNCHANGED result
    /\ UNCHANGED <<now, cached_flight_data, last_flight_fetch_time, response,
                   flights>>
    /\ UNCHANGED <<normVars, detectVars>>

\* line 50: requests.get returns a response.
Respond(t) ==
    /\ pc[t] = "fetching"
    /\ \E r \in Responses : response' = [response EXCEPT ![t] = r]
    /\ pc' = [pc EXCEPT ![t] = "got"]
    /\ UNCHANGED <<now, cached_flight_data, last_flight_fetch_time, flights,
                   result, staleFail>>
    /\ UNCHANGED <<normVars, detectVars>>

\* line 50: requests.get raises (connection refused, DNS failure, ...);
\* nothing in get_flight_data or in the route catches it.
RequestRaises(t) ==
    /\ pc[t] = "fetching"
    /\ pc' = [pc EXCEPT ![t] = "raised"]
    /\ staleFail' = AfterFailure(staleFail)
    /\ UNCHANGED <<now, cached_flight_data, last_flight_fetch_time, response,
                   flights, result>>
    /\ UNCHANGED <<normVars, detectVars>>

\* lines 52-65: status 200; parse, normalise, store the list in the global.
StoreData(t) ==
    /\ pc[t] = "got"
    /\ response[t].status = 200
    /\ LET parsed == ParseFlights(response[t].body) IN
       IF parsed.raised
       THEN /\ pc' = [pc EXCEPT ![t] = "raised"]
            /\ staleFail' = AfterFailure(staleFail)
            /\ UNCHANGED <<flights, cached_flight_data>>
       ELSE /\ pc' = [pc EXCEPT ![t] = "stored"]
            /\ flights' = [flights EXCEPT ![t] = parsed.val]
            /\ cached_flight_data' = parsed.val
            /\ UNCHANGED staleFail
    /\ UNCHANGED <<now, last_flight_fetch_time, response, result>>
    /\ UNCHANGED <<normVars, detectVars>>

\* lines 66-68: store the timestamp, return the fresh list.
StoreTime(t) ==
    /\ pc[t] = "stored"
    /\ last_flight_fetch_time' = now
    /\ result' = [result EXCEPT ![t] = flights[t]]
    /\ pc' = [pc EXCEPT ![t] = "done"]
    /\ staleFail' = "no"
    /\ UNCHANGED <<now, cached_flight_data, response, flights>>
    /\ UNCHANGED <<normVars, detectVars>>

\* lines 69-71: any other status; return the cached list.
FetchFailed(t) ==
    /\ pc[t] = "got"
    /\ response[t].status # 200
    /\ result' = [result EXCEPT ![t] = cached_flight_data]
    /\ pc' = [pc EXCEPT ![t] = "done"]
    /\ staleFail' = AfterFailure(staleFail)
    /\ UNCHANGED <<now, cached_flight_data, last_flight_fetch_time, response,
                   flights>>
    /\ UNCHANGED <<normVars, detectVars>>

\* The request is over (lines 124-127); the thread serves the next one.
Return(t) ==
    /\ pc[t] \in {"done", "raised"}
    /\ pc' = [pc EXCEPT ![t] = "idle"]
    /\ response' = [response EXCEPT ![t] = NoResponse]
    /\ flights' = [flights EXCEPT ![t] = <<>>]
    /\ result' = [result EXCEPT ![t] = <<>>]
    /\ UNCHANGED <<now, cached_flight_data, last_flight_fetch_time, staleFail>>
    /\ UNCHANGED <<normVars, detectVars>>

\* time.time() advances.
Tick ==
    /\ TicksUsed < MaxTicks
    /\ \E d \in TickSteps : now' = now + d
    /\ UNCHANGED <<cached_flight_data, last_flight_fetch_time, pc, response,
                   flights, result, staleFail>>
    /\ UNCHANGED <<normVars, detectVars>>

(***************************************************************************)
(* Normalisation of one upstream answer: get_balloon_data as a whole, and  *)
(* the parsing part of get_flight_data.                                    *)
(***************************************************************************)
MaxRecords == 2

\* All lists of at most n elements of S.
ListsUpTo(S, n) == UNION {[1..m -> S] : m \in 0..n}

BalloonVals == {Num(2), NaN, Inf, Null}

BalloonEntries ==
    {<<a, b, c>> : a \in BalloonVals, b \in BalloonVals, c \in BalloonVals}
        \cup {<<Num(2), Num(2)>>, <<Num(2), Num(2), Num(2), Num(2)>>}

FlightVals == {Num(0), Num(2), NaN, Null}

FlightCallsigns ==
    {Null, Str(<<>>), Str(<<" ">>), Str(<<" ", "A", " ">>)}

FlightRecords ==
    {FlightRecord(c, Num(2), Num(2), Num(2)) : c \in FlightCallsigns}
        \cup {FlightRecord(Str(<<"A">>), lo, la, al) :
                 lo \in FlightVals, la \in FlightVals, al \in FlightVals}
        \cup {<<Null, Str(<<"A">>), Null, Null, Null, Num(2)>>}

\* get_balloon_data, lines 13-35, on the answer u of requests.get.
GetBalloonData(u) ==
    CASE u.outcome = "raise" -> Raised
      [] u.outcome = "status" -> Ok(<<>>)
      [] OTHER -> BalloonLoop(u.body.v, <<>>)

\* The answer is drawn from: a 200 answer of the balloon source with a list
\* of entries, an error status or a raising request of the balloon source,
\* and a 200 answer of the flight source with a list of state vectors.
NormInit ==
    /\ \/ \E raw \in ListsUpTo(BalloonEntries, MaxRecords) :
             upstream = [source |-> "balloon", outcome |-> "ok",
                         body |-> StatesList(raw)]
       \/ \E o \in {"status", "raise"} :
             upstream = [source |-> "balloon", outcome |-> o,
                         body |-> StatesList(<<>>)]
       \/ \E raw \in ListsUpTo(FlightRecords, MaxRecords) :
             upstream = [source |-> "flight", outcome |-> "ok",
                         body |-> StatesList(raw)]
    /\ norm_pc = "start"
    /\ norm_out = Ok(<<>>)

get_balloon_data ==
    /\ norm_pc = "start"
    /\ upstream.source = "balloon"
    /\ norm_out' = GetBalloonData(upstream)
    /\ norm_pc' = "done"
    /\ UNCHANGED upstream
    /\ UNCHANGED <<cacheVars, detectVars>>

\* lines 53-63 of get_flight_data applied to a 200 answer.
NormalizeFlights ==
    /\ norm_pc = "start"
    /\ upstream.source = "flight"
    /\ norm_out' = ParseFlights(upstream.body)
    /\ norm_pc' = "done"
    /\ UNCHANGED upstream
    /\ UNCHANGED <<cacheVars, detectVars>>

(***************************************************************************)
(* detect_risks(flights, balloons), lines 74-116.                          *)
(***************************************************************************)
MaxFlights == 2
MaxBalloons == 3

Radius == 1
AltThreshold == 2000

Abs(x) == IF x < 0 THEN -x ELSE x

Entity(lat, lon, alt) ==
    [latitude |-> Num(lat), longitude |-> Num(lon), altitude |-> Num(alt)]

FlightOf(callsign, e) ==
    [callsign |-> callsign, latitude |-> e.latitude,
     longitude |-> e.longitude, altitude |-> e.altitude]

\* Inputs.  Flight A is within the radius of both balloons (at distance 1
\* from each, at altitude differences 0 and 1999).  B and C are at distance
\* 0 from the first balloon, at altitude differences 1999 and 2000, and
\* outside the radius of the second, B at altitude difference 0 from it.
DetectFlights ==
    {FlightOf(<<"A">>, Entity(0, 1, 9000)),
     FlightOf(<<"B">>, Entity(0, 0, 10999)),
     FlightOf(<<"C">>, Entity(0, 0, 11000))}

DetectBalloons == {Entity(0, 0, 9000), Entity(1, 1, 10999)}

\* KDTree.query_ball_point(x, r): the indices of the points p with
\* |x - p| <= r, latitude and longitude taken as planar coordinates.
QueryBallPointStrict(positions, x, r) ==
    {idx \in DOMAIN positions :
        (positions[idx][1] - x[1]) * (positions[idx][1] - x[1])
            + (positions[idx][2] - x[2]) * (positions[idx][2] - x[2]) < r * r}

QueryBallPoint(positions, x, r) ==
    {idx \in DOMAIN positions :
        (positions[idx][1] - x[1]) * (positions[idx][1] - x[1])
            + (positions[idx][2] - x[2]) * (positions[idx][2] - x[2]) =< r * r}

\* The orders in which the tree may hand back a set of indices.
Orders(S) ==
    {o \in [1..Cardinality(S) -> S] :
        \A a, b \in 1..Cardinality(S) : a # b => o[a] # o[b]}

\* line 103: `altitude_diff < 2000`
AltitudeRiskInclusive(altitude_diff) == altitude_diff =< AltThreshold

AltitudeRisk(altitude_diff) == altitude_diff < AltThreshold

\* round(geodesic(a, b).km, 2): a value fixed by the two positions.
GeodesicKm(a, b) == [from |-> a, to |-> b]

AltitudeDiff(flight, balloon) == Abs(flight.altitude.v - balloon.altitude.v)

\* lines 104-112
Alert(flight, balloon) ==
    [aircraft |-> flight.callsign,
     latitude |-> flight.latitude,
     longitude |-> flight.longitude,
     altitude |-> flight.altitude,
     risk |-> "Possible Airspace Violation",
     distance_km |-> GeodesicKm(<<balloon.latitude.v, balloon.longitude.v>>,
                                <<flight.latitude.v, flight.longitude.v>>),
     altitude_diff |-> Num(AltitudeDiff(flight, balloon))]

\* lines 99-113: the inner loop over the indices, in the order given.
RECURSIVE InnerLoop(_, _, _, _)
InnerLoop(flight, balloons, order, acc) ==
    IF order = <<>> THEN acc
    ELSE LET balloon == balloons[Head(order)] IN
         InnerLoop(flight, balloons, Tail(order),
                   IF AltitudeRisk(AltitudeDiff(flight, balloon))
                   THEN Append(acc, Alert(flight, balloon))
                   ELSE acc)

\* The indices of `order` whose balloon passes line 103, in order.
RECURSIVE RiskyOf(_, _, _)
RiskyOf(flight, balloons, order) ==
    IF order = <<>> THEN <<>>
    ELSE (IF AltitudeRisk(AltitudeDiff(flight, balloons[Head(order)]))
          THEN <<Head(order)>> ELSE <<>>)
             \o RiskyOf(flight, balloons, Tail(order))

\* line 76: `not balloons or not flights`
EmptyInputBoth(fs, bs) == bs = <<>> /\ fs = <<>>

EmptyInput(fs, bs) == bs = <<>> \/ fs = <<>>

DetectInit ==
    /\ d_flights \in ListsUpTo(DetectFlights, MaxFlights)
    /\ d_balloons \in ListsUpTo(DetectBalloons, MaxBalloons)
    /\ d_pc = "start"
    /\ d_i = 1
    /\ alerts = <<>>
    /\ emitted = <<>>
    /\ treeBuilt = FALSE
    /\ queries = 0
    /\ d_result = <<>>

\* lines 75-90: the empty test, then the construction of the tree (an empty
\* position list returns at line 87 without building it).
DetectStart ==
    /\ d_pc = "start"
    /\ IF EmptyInput(d_flights, d_balloons) \/ Len(d_balloons) = 0
       THEN /\ d_pc' = "done"
            /\ d_result' = <<>>
            /\ UNCHANGED treeBuilt
       ELSE /\ d_pc' = "loop"
            /\ treeBuilt' = TRUE
            /\ UNCHANGED d_result
    /\ UNCHANGED <<d_flights, d_balloons, d_i, alerts, emitted, queries>>
    /\ UNCHANGED <<cacheVars, normVars>>

\* lines 92-113: one iteration of `for flight in flights`.
DetectFlight ==
    /\ d_pc = "loop"
    /\ d_i =< Len(d_flights)
    /\ LET flight == d_flights[d_i]
           flight_pos == <<flight.latitude.v, flight.longitude.v>>
           balloon_positions ==
               [b \in DOMAIN d_balloons |->
                   <<d_balloons[b].latitude.v, d_balloons[b].longitude.v>>]
           nearby == QueryBallPoint(balloon_positions, flight_pos, Radius)
       IN \E nearby_balloon_indices \in Orders(nearby) :
            /\ alerts' = InnerLoop(flight, d_balloons, nearby_balloon_indices,
                                   alerts)
            /\ emitted' = emitted \o
                   [n \in 1..Len(RiskyOf(flight, d_balloons,
                                         nearby_balloon_indices)) |->
                       <<d_i, RiskyOf(flight, d_balloons,
                                      nearby_balloon_indices)[n]>>]
    /\ queries' = queries + 1
    /\ d_i' = d_i + 1
    /\ UNCHANGED <<d_flights, d_balloons, d_pc, treeBuilt, d_result>>
    /\ UNCHANGED <<cacheVars, normVars>>

\* lines 115-116
DetectReturn ==
    /\ d_pc = "loop"
    /\ d_i > Len(d_flights)
    /\ d_result' = alerts
    /\ d_pc' = "done"
    /\ UNCHANGED <<d_flights, d_balloons, d_i, alerts, emitted, treeBuilt,
                   queries>>
    /\ UNCHANGED <<cacheVars, normVars>>

(***************************************************************************)
(* Specifications.  Each fixes the variables of the other parts.           *)
(***************************************************************************)
NormIdle ==
    /\ upstream = [source |-> "none", outcome |-> "ok", body |-> StatesList(<<>>)]
    /\ norm_pc = "done"
    /\ norm_out = Ok(<<>>)

DetectIdle ==
    /\ d_flights = <<>>
    /\ d_balloons = <<>>
    /\ d_pc = "done"
    /\ d_i = 1
    /\ alerts = <<>>
    /\ emitted = <<>>
    /\ treeBuilt = FALSE
    /\ queries = 0
    /\ d_result = <<>>

Init == CacheInit /\ NormIdle /\ DetectIdle

Next ==
    \/ \E t \in Threads : Call(t)
    \/ \E t \in Threads : Respond(t)
    \/ \E t \in Threads : RequestRaises(t)
    \/ \E t \in Threads : StoreData(t)
    \/ \E t \in Threads : StoreTime(t)
    \/ \E t \in Threads : FetchFailed(t)
    \/ \E t \in Threads : Return(t)
    \/ Tick

Spec == Init /\ [][Next]_vars

InitNorm == CacheInit /\ NormInit /\ DetectIdle

NextNorm ==
    \/ get_balloon_data
    \/ NormalizeFlights

SpecNorm == InitNorm /\ [][NextNorm]_vars

InitDetect == CacheInit /\ NormIdle /\ DetectInit

NextDetect ==
    \/ DetectStart
    \/ DetectFlight
    \/ DetectReturn

SpecDetect == InitDetect /\ [][NextDetect]_vars

(***************************************************************************)
(* Properties of the flight cache, checked under Spec.                     *)
(***************************************************************************)
\* A step in which thread t begins a call of get_flight_data.
Calls(t) == pc[t] = "idle" /\ pc'[t] # "idle"

\* A step in which thread t's upstream fetch ends in failure: requests.get
\* raises, or the response carries a status other than 200.
FetchFails(t) ==
    \/ pc[t] = "fetching" /\ pc'[t] \notin {"fetching", "got"}
    \/ pc[t] = "got" /\ response[t].status # 200 /\ pc'[t] # "got"

InFlight == {t \in Threads : pc[t] \in {"fetching", "got", "stored"}}

\* C1: a call made less than 60 seconds after the last successful fetch
\* returns the cached list without going to the upstream and without
\* touching the cache; the cached list and its timestamp change only in a
\* step of a call that is completing a successful fetch, so the calls inside
\* one freshness window all return the list of the one fetch that opened it.
C1_CacheHitWithinTTL ==
    [][/\ \A t \in Threads :
            (/\ Calls(t)
             /\ last_flight_fetch_time # 0
             /\ now - last_flight_fetch_time < TTL)
                => /\ pc'[t] = "done"
                   /\ result'[t] = cached_flight_data
                   /\ cached_flight_data' = cached_flight_data
                   /\ last_flight_fetch_time' = last_flight_fetch_time
       /\ (\/ cached_flight_data' # cached_flight_data
           \/ last_flight_fetch_time' # last_flight_fetch_time)
              => \E t \in Threads :
                    /\ pc[t] \in {"got", "stored"}
                    /\ response[t].status = 200]_vars

\* A call answered from a non-empty cache one second before the TTL ends.
C1_Witness ==
    \E t \in Threads :
        /\ pc[t] = "done"
        /\ response[t] = NoResponse
        /\ result[t] # <<>>
        /\ result[t] = cached_flight_data
        /\ now - last_flight_fetch_time = TTL - 1

\* C2: whenever the upstream fetch of a call fails, the cached list and its
\* timestamp stay as they are and the call returns the cached list.
C2_FailedFetchFallsBack ==
    [][\A t \in Threads :
          FetchFails(t)
              => /\ cached_flight_data' = cached_flight_data
                 /\ last_flight_fetch_time' = last_flight_fetch_time
                 /\ pc'[t] = "done"
                 /\ result'[t] = cached_flight_data]_vars

\* C3: refreshes are serialized: at most one call is between the start of
\* its upstream request and the end of its store at any time.
C3_SingleFlight == Cardinality(InFlight) =< 1

\* C4: no call of get_flight_data ends by raising.
C4_NeverRaises == \A t \in Threads : pc[t] # "raised"

\* C10: after a fetch has failed while the cache was expired, every call
\* begun before the next timestamp is stored goes to the upstream again, and
\* a call whose fetch succeeds returns the list parsed from its own response.
C10_FailureNotCached ==
    [][/\ \A t \in Threads :
            (Calls(t) /\ staleFail # "no") => pc'[t] = "fetching"
       /\ \A t \in Threads :
            (pc[t] = "stored" /\ pc'[t] = "done")
                => /\ result'[t] = ParseFlights(response[t].body).val
                   /\ last_flight_fetch_time' = now]_vars

\* After a failure on an expired, non-empty cache a later call is at the
\* upstream again.
C10_Witness ==
    /\ staleFail = "retried"
    /\ cached_flight_data # <<>>
    /\ \E t \in Threads : pc[t] = "fetching"

(***************************************************************************)
(* Properties of the normalisation, checked under SpecNorm.                *)
(***************************************************************************)
AllNumeric(a, b, c) == a.k = "num" /\ b.k = "num" /\ c.k = "num"

WellFormedBalloon(entry) ==
    Len(entry) = 3 /\ AllNumeric(entry[1], entry[2], entry[3])

WellFormedFlight(rec) ==
    Len(rec) >= 8 /\ AllNumeric(At(rec, 5), At(rec, 6), At(rec, 7))

\* <<latitude, longitude, altitude>> of the records that should be kept.
ExpectedPositions(u) ==
    IF u.source = "balloon"
    THEN LET kept == SelectSeq(u.body.v, WellFormedBalloon)
         IN [n \in DOMAIN kept |->
                <<kept[n][1], kept[n][2], Num(kept[n][3].v * 1000)>>]
    ELSE LET kept == SelectSeq(u.body.v, WellFormedFlight)
         IN [n \in DOMAIN kept |->
                <<At(kept[n], 6), At(kept[n], 5), At(kept[n], 7)>>]

Positions(entities) ==
    [n \in DOMAIN entities |->
        <<entities[n].latitude, entities[n].longitude, entities[n].altitude>>]

\* C7: normalisation never raises and returns exactly, in order, the
\* records of the expected arity whose latitude, longitude and altitude are
\* all numeric and finite.
C7_NormalizerExact ==
    (norm_pc = "done" /\ upstream.source \in {"balloon", "flight"}
        /\ upstream.outcome = "ok")
        => /\ ~norm_out.raised
           /\ Positions(norm_out.val) = ExpectedPositions(upstream)

Blank(chars) == \A n \in DOMAIN chars : chars[n] = " "

ExpectedLabel(rec) ==
    IF At(rec, 1).k # "str" \/ Blank(At(rec, 1).s)
    THEN Unknown
    ELSE Strip(At(rec, 1).s)

IsAccepted(rec) == FlightAccepted(rec) = "T"

\* C8: the callsign of every flight entity is "Unknown" when the raw
\* callsign is absent or blank, the stripped raw callsign otherwise, and in
\* no case empty.
C8_LabelNeverBlank ==
    (norm_pc = "done" /\ upstream.source = "flight" /\ ~norm_out.raised)
        => LET kept == SelectSeq(upstream.body.v, IsAccepted)
           IN \A n \in DOMAIN norm_out.val :
                 /\ norm_out.val[n].callsign # <<>>
                 /\ norm_out.val[n].callsign = ExpectedLabel(kept[n])

(***************************************************************************)
(* Properties of detect_risks, checked under SpecDetect.                   *)
(***************************************************************************)
\* Planar distance of flight i and balloon j is at most the radius.
WithinRadius(i, j) ==
    LET dlat == d_flights[i].latitude.v - d_balloons[j].latitude.v
        dlon == d_flights[i].longitude.v - d_balloons[j].longitude.v
    IN dlat * dlat + dlon * dlon =< Radius * Radius

AltDiff(i, j) == Abs(d_flights[i].altitude.v - d_balloons[j].altitude.v)

Emitted(i, j) == \E n \in DOMAIN emitted : emitted[n] = <<i, j>>

\* C5: for a flight and a balloon within the radius an alert is emitted if
\* and only if the absolute altitude difference is below 2000, and each
\* alert carries that difference.
C5_AltitudeThreshold ==
    d_pc = "done"
        => /\ \A i \in DOMAIN d_flights, j \in DOMAIN d_balloons :
                WithinRadius(i, j) => (Emitted(i, j) <=> AltDiff(i, j) < 2000)
           /\ Len(d_result) = Len(emitted)
           /\ \A n \in DOMAIN d_result :
                d_result[n].altitude_diff
                    = Num(AltDiff(emitted[n][1], emitted[n][2]))

\* One pair at difference 1999 with its alert and one at exactly 2000.
C5_Witness ==
    /\ d_pc = "done"
    /\ \E i \in DOMAIN d_flights, j \in DOMAIN d_balloons :
          WithinRadius(i, j) /\ AltDiff(i, j) = 1999 /\ Emitted(i, j)
    /\ \E i \in DOMAIN d_flights, j \in DOMAIN d_balloons :
          WithinRadius(i, j) /\ AltDiff(i, j) = 2000 /\ ~Emitted(i, j)

\* C6: for non-empty lists the alerts are, one for one, the pairs within
\* the radius whose altitude difference is below 2000, grouped by flight in
\* the order of the flight list, each copying its flight's fields.
C6_OneAlertPerPair ==
    (d_pc = "done" /\ d_flights # <<>> /\ d_balloons # <<>>)
        => /\ Len(d_result) = Len(emitted)
           /\ {emitted[n] : n \in DOMAIN emitted}
                = {p \in (DOMAIN d_flights) \X (DOMAIN d_balloons) :
                      WithinRadius(p[1], p[2]) /\ AltDiff(p[1], p[2]) < 2000}
           /\ \A a, b \in DOMAIN emitted :
                a < b => /\ emitted[a] # emitted[b]
                         /\ emitted[a][1] =< emitted[b][1]
           /\ \A n \in DOMAIN d_result :
                LET flight == d_flights[emitted[n][1]] IN
                /\ d_result[n].aircraft = flight.callsign
                /\ d_result[n].latitude = flight.latitude
                /\ d_result[n].longitude = flight.longitude
                /\ d_result[n].altitude = flight.altitude

\* The first flight has three alerts, one per balloon; the second is at
\* altitude difference 0 from a balloon outside the radius and has none.
C6_Witness ==
    /\ d_pc = "done"
    /\ Len(d_flights) = 2
    /\ Len(d_balloons) = 3
    /\ Len(d_result) = 3
    /\ \A n \in DOMAIN emitted : emitted[n][1] = 1
    /\ \E j \in DOMAIN d_balloons : ~WithinRadius(2, j) /\ AltDiff(2, j) = 0

\* C9: with an empty balloon list or an empty flight list detect_risks
\* returns the empty list and neither builds nor queries the tree.
C9_EmptyInput ==
    (d_pc = "done" /\ (d_balloons = <<>> \/ d_flights = <<>>))
        => d_result = <<>> /\ ~treeBuilt /\ queries = 0

\* The call has returned for an empty flight list and a non-empty balloon list.
C9_Witness ==
    d_pc = "done" /\ d_flights = <<>> /\ d_balloons # <<>> /\ d_result = <<>>

====
